---- MODULE Spec2Model ----
(***************************************************************************)
(* Receptsamling: the recipe repository (Firestore documents + Cloud       *)
(* Storage blobs), the in-memory repository used by the tests, and the     *)
(* Flask handlers that call a repository.                                  *)
(*                                                                         *)
(* Strings are sequences of one-character strings; "NL" stands for the     *)
(* newline character.  Python's None is the empty sequence None, a value   *)
(* x that is set is <<x>> (so that "is set" is Len = 1).                   *)
(***************************************************************************)
EXTENDS Integers, Sequences, FiniteSets, TLC

\* ---------------------------------------------------------------- bounds
\* Number of documents the document store ever creates (ids are never reused).
MaxRecipes == 2
\* Number of blob names _build_blob_name ever generates (uuid4: never reused).
MaxBlobs == 2

\* Number of calls the callers make.
MaxCalls == 3

Ids == 1..MaxRecipes

\* The request-serving processes (gunicorn workers).
Procs == {"p1", "p2"}

None == <<>>
Some(x) == <<x>>
IsSet(o) == o # None

\* ------------------------------------------------------- string functions
IsSpace(c) == c \in {" ", "NL"}

RECURSIVE LStrip(_)
LStrip(s) == IF s # <<>> /\ IsSpace(Head(s)) THEN LStrip(Tail(s)) ELSE s

RECURSIVE RStrip(_)
RStrip(s) ==
  IF s # <<>> /\ IsSpace(s[Len(s)]) THEN RStrip(SubSeq(s, 1, Len(s) - 1)) ELSE s

\* str.strip()
Strip(s) == RStrip(LStrip(s))

\* str.splitlines(): cut at every newline; a trailing newline opens no line.
RECURSIVE SplitFrom(_, _)
SplitFrom(s, cur) ==
  IF s = <<>> THEN (IF cur = <<>> THEN <<>> ELSE <<cur>>)
  ELSE IF Head(s) = "NL" THEN <<cur>> \o SplitFrom(Tail(s), <<>>)
  ELSE SplitFrom(Tail(s), Append(cur, Head(s)))

SplitLines(s) == SplitFrom(s, <<>>)

RECURSIVE StripNonBlank(_)
StripNonBlank(lines) ==
  IF lines = <<>> THEN <<>>
  ELSE IF Strip(Head(lines)) # <<>>
       THEN <<Strip(Head(lines))>> \o StripNonBlank(Tail(lines))
       ELSE StripNonBlank(Tail(lines))

\* [line.strip() for line in text.splitlines() if line.strip()]
ParseIngredients(ingredients_text) == StripNonBlank(SplitLines(ingredients_text))

\* str.lower() on the letters the filenames below use.
LowerChar(c) ==
  CASE c = "P" -> "p" [] c = "N" -> "n" [] c = "G" -> "g" [] OTHER -> c

Lower(s) == [i \in 1..Len(s) |-> LowerChar(s[i])]

ALLOWED_IMAGE_EXTENSIONS ==
  { <<"p","n","g">>, <<"j","p","g">>, <<"j","p","e","g">>, <<"g","i","f">>,
    <<"w","e","b","p">> }

\* filename.rsplit(".", 1)[1]: what follows the last dot.
RECURSIVE AfterLastDot(_)
AfterLastDot(s) ==
  IF \E i \in 1..Len(s) : s[i] = "."
  THEN AfterLastDot(Tail(s))
  ELSE s

AllowedImage(filename) ==
  IF filename = <<>> \/ ~(\E i \in 1..Len(filename) : filename[i] = ".")
  THEN FALSE
  ELSE Lower(AfterLastDot(filename)) \in ALLOWED_IMAGE_EXTENSIONS

\* ---------------------------------------------------------------- inputs
\* request.files.get("image"): no file part, or a FileStorage with a filename.
NoFile == [present |-> FALSE, filename |-> <<>>]
File(name) == [present |-> TRUE, filename |-> name]

\* bool(FileStorage) is bool(filename); "image and image.filename".
ImageTruthy(image) == image.present /\ image.filename # <<>>

Images ==
  { NoFile, File(<<>>), File(<<"a", ".", "P", "N", "G">>), File(<<"a", ".", "e", "x", "e">>) }

\* The text fields of a submitted form, as typed.
TextForms ==
  { [title |-> <<" ", "a">>, description |-> <<>>, ingredients |-> <<>>,
     instructions |-> <<>>],
    [title |-> <<"b", " ">>, description |-> <<"d", " ">>,
     ingredients |-> <<"x", "NL", " ", "NL", " ", "y">>, instructions |-> <<"i", "NL">>],
    [title |-> <<" ">>, description |-> <<"d">>, ingredients |-> <<"x">>,
     instructions |-> <<>>] }

\* request.form.get(name, "").strip() for the four text fields.
StripForm(f) ==
  [title |-> Strip(f.title), description |-> Strip(f.description),
   ingredients |-> Strip(f.ingredients), instructions |-> Strip(f.instructions)]

\* The texts a direct caller passes: already trimmed, with a title.
DirectTexts == { StripForm(f) : f \in { g \in TextForms : Strip(g.title) # <<>> } }

\* ----------------------------------------------------------------- state
VARIABLES
  backend,   \* which repository create_app was given: "firestore" or "memory"
  bucket,    \* FirestoreRecipeStorage._bucket is configured
  docs,      \* Firestore collection: document id -> document
  blobs,     \* Cloud Storage bucket: names of the blobs stored
  nextId,    \* next document id the store assigns
  nextBlob,  \* next blob name _build_blob_name returns
  recipes,   \* InMemoryRecipeStorage._recipes
  pc,        \* per process: where its current repository call stands
  local,     \* per process: the arguments and local variables of its call
  result,    \* per process: how its last call ended
  calls      \* per process: the number of calls it has made

vars == <<backend, bucket, docs, blobs, nextId, nextBlob, recipes, pc, local, result, calls>>

NoText == [title |-> <<>>, description |-> <<>>, ingredients |-> <<>>, instructions |-> <<>>]

NoCall ==
  [kind |-> "none", via |-> "direct", id |-> 0, form |-> NoText, args |-> NoText,
   kwargs |-> {}, has_image |-> FALSE, remove_image |-> FALSE,
   current_blob_name |-> None, current_image_url |-> None,
   blob_name |-> None, image_url |-> None, ops |-> <<>>, not_found |-> FALSE]

\* The empty collection.
NoDocs == [i \in {} |-> NoText]

Init ==
  /\ backend \in {"firestore", "memory"}
  /\ bucket \in BOOLEAN
  /\ (backend = "memory" => bucket = FALSE)
  /\ docs = NoDocs
  /\ blobs = {}
  /\ nextId = 1
  /\ nextBlob = 1
  /\ recipes = <<>>
  /\ pc = [p \in Procs |-> "idle"]
  /\ local = [p \in Procs |-> NoCall]
  /\ result = [p \in Procs |-> "none"]
  /\ calls = [p \in Procs |-> 0]

\* ---------------------------------------------------------- call plumbing
Stores == <<docs, blobs, nextId, nextBlob, recipes>>
Config == <<backend, bucket>>

RECURSIVE Sum(_, _)
Sum(f, S) == IF S = {} THEN 0 ELSE LET x == CHOOSE y \in S : TRUE IN f[x] + Sum(f, S \ {x})

\* The process is between two calls (and the model has calls left).
Callable(p) == pc[p] \in {"idle", "done"} /\ Sum(calls, Procs) < MaxCalls

\* A caller makes a call: the configuration stays as create_app left it.
Called(p) ==
  /\ calls' = [calls EXCEPT ![p] = @ + 1]
  /\ UNCHANGED Config

\* The call goes on at step at.
Goto(p, c, at) ==
  /\ pc' = [pc EXCEPT ![p] = at]
  /\ local' = [local EXCEPT ![p] = c]
  /\ result' = [result EXCEPT ![p] = "running"]

\* The call ends: it returns ("ok") or raises res.
Return(p, c, res) ==
  /\ pc' = [pc EXCEPT ![p] = "done"]
  /\ local' = [local EXCEPT ![p] = c]
  /\ result' = [result EXCEPT ![p] = res]

\* The call has made blob operation op on blob b; a blob.delete() of a blob
\* that is not in the bucket raised NotFound, which was swallowed.
Logged(c, op, b) ==
  [c EXCEPT !.ops = Append(@, <<op, b>>),
            !.not_found = @ \/ (op = "delete" /\ b \notin blobs)]

\* ------------------------------------------------ FirestoreRecipeStorage
\* _get_image_url: the URL derived from a blob (signed or public).
Url(b) == <<"url", b>>

\* _build_blob_name: a name no earlier call returned.
BuildBlobName == nextBlob

\* _delete_blob_if_exists calls blob.delete() at all.
CallsBlobDelete(blob_name) == IsSet(blob_name) /\ bucket

\* _delete_blob_if_exists: the bucket after it returned normally (a NotFound
\* from blob.delete() is swallowed).
DeleteBlobIfExists(blob_name) ==
  IF ~CallsBlobDelete(blob_name) THEN blobs ELSE blobs \ {blob_name[1]}

\* add_recipe up to the upload: the argument checks.
FsAddCall(p, c) ==
  /\ UNCHANGED Stores
  /\ IF c.has_image
     THEN IF ~bucket THEN Return(p, c, "RuntimeError") ELSE Goto(p, c, "add_upload")
     ELSE Goto(p, c, "add_set")

\* add_recipe: blob.upload_from_file and _get_image_url.
FsAddUpload(p) ==
  /\ pc[p] = "add_upload"
  /\ LET b == BuildBlobName
         c == [local[p] EXCEPT !.blob_name = Some(b), !.image_url = Some(Url(b))]
     IN /\ blobs' = blobs \cup {b}
        /\ nextBlob' = nextBlob + 1
        /\ Goto(p, Logged(c, "upload", b), "add_set")
  /\ UNCHANGED <<Config, calls, docs, nextId, recipes>>

NewDoc(c) ==
  [title |-> c.args.title, description |-> c.args.description,
   ingredients |-> ParseIngredients(c.args.ingredients),
   instructions |-> c.args.instructions,
   image_url |-> c.image_url, image_blob_name |-> c.blob_name]

\* add_recipe: doc_ref.set(doc) on a fresh document, then the read back.
FsAddSet(p) ==
  /\ pc[p] = "add_set"
  /\ docs' = [i \in DOMAIN docs \cup {nextId} |->
                IF i = nextId THEN NewDoc(local[p]) ELSE docs[i]]
  /\ nextId' = nextId + 1
  /\ Return(p, [local[p] EXCEPT !.id = nextId], "ok")
  /\ UNCHANGED <<Config, calls, blobs, nextBlob, recipes>>

\* delete_recipe that takes a missing document for already deleted.
FsDeleteCall_MissingIsSuccess(p, c) ==
  /\ UNCHANGED Stores
  /\ IF c.id \notin DOMAIN docs
     THEN Return(p, c, "ok")
     ELSE Goto(p, [c EXCEPT !.current_blob_name = docs[c.id].image_blob_name],
               "del_blob")

\* delete_recipe: the snapshot read and the KeyError.
FsDeleteCall(p, c) ==
  /\ UNCHANGED Stores
  /\ IF c.id \notin DOMAIN docs
     THEN Return(p, c, "KeyError")
     ELSE Goto(p, [c EXCEPT !.current_blob_name = docs[c.id].image_blob_name],
               "del_blob")

\* delete_recipe with its two deletions in the other order: the document goes
\* first.
FsDeleteBlob_DocumentFirst(p) ==
  /\ pc[p] = "del_blob"
  /\ docs' = [i \in DOMAIN docs \ {local[p].id} |-> docs[i]]
  /\ Goto(p, local[p], "del_doc")
  /\ UNCHANGED <<Config, calls, blobs, nextId, nextBlob, recipes>>

\* delete_recipe whose blob deletion lets NotFound through.
FsDeleteBlob_NotFoundRaises(p) ==
  /\ pc[p] = "del_blob"
  /\ LET name == local[p].current_blob_name
     IN IF CallsBlobDelete(name) /\ name[1] \notin blobs
        THEN Return(p, Logged(local[p], "delete", name[1]), "NotFound") /\ UNCHANGED blobs
        ELSE /\ blobs' = DeleteBlobIfExists(name)
             /\ Goto(p, IF CallsBlobDelete(name) THEN Logged(local[p], "delete", name[1])
                        ELSE local[p], "del_doc")
  /\ UNCHANGED <<Config, calls, docs, nextId, nextBlob, recipes>>

\* delete_recipe: self._delete_blob_if_exists(blob_name).
FsDeleteBlob(p) ==
  /\ pc[p] = "del_blob"
  /\ LET name == local[p].current_blob_name
     IN /\ blobs' = DeleteBlobIfExists(name)
        /\ Goto(p, IF CallsBlobDelete(name) THEN Logged(local[p], "delete", name[1])
                   ELSE local[p], "del_doc")
  /\ UNCHANGED <<Config, calls, docs, nextId, nextBlob, recipes>>

\* delete_recipe: doc_ref.delete() (deleting a missing document is no error).
FsDeleteDoc(p) ==
  /\ pc[p] = "del_doc"
  /\ docs' = [i \in DOMAIN docs \ {local[p].id} |-> docs[i]]
  /\ Return(p, local[p], "ok")
  /\ UNCHANGED <<Config, calls, blobs, nextId, nextBlob, recipes>>

\* update_recipe without the existence check: a missing document reads as an
\* empty one.
FsUpdateCall_NoExistenceCheck(p, c) ==
  /\ UNCHANGED Stores
  /\ LET d == IF c.id \in DOMAIN docs
              THEN [c EXCEPT !.current_blob_name = docs[c.id].image_blob_name,
                             !.current_image_url = docs[c.id].image_url,
                             !.blob_name = docs[c.id].image_blob_name,
                             !.image_url = docs[c.id].image_url]
              ELSE c
     IN IF d.has_image
        THEN IF ~bucket THEN Return(p, d, "RuntimeError")
             ELSE IF IsSet(d.current_blob_name) THEN Goto(p, d, "upd_del_old")
             ELSE Goto(p, d, "upd_upload")
        ELSE IF d.remove_image THEN Goto(p, d, "upd_remove")
        ELSE Goto(p, d, "upd_write")

\* update_recipe with new_blob_name and new_image_url starting out as None
\* instead of the current values.
FsUpdateCall_NoCarryOver(p, c) ==
  /\ UNCHANGED Stores
  /\ IF c.id \notin DOMAIN docs
     THEN Return(p, c, "KeyError")
     ELSE LET cur == docs[c.id]
              d == [c EXCEPT !.current_blob_name = cur.image_blob_name,
                             !.current_image_url = cur.image_url]
          IN IF d.has_image
             THEN IF ~bucket THEN Return(p, d, "RuntimeError")
                  ELSE IF IsSet(d.current_blob_name) THEN Goto(p, d, "upd_del_old")
                  ELSE Goto(p, d, "upd_upload")
             ELSE IF d.remove_image THEN Goto(p, d, "upd_remove")
             ELSE Goto(p, d, "upd_write")

\* update_recipe: the snapshot read, the KeyError and the choice of branch.
FsUpdateCall(p, c) ==
  /\ UNCHANGED Stores
  /\ IF c.id \notin DOMAIN docs
     THEN Return(p, c, "KeyError")
     ELSE LET cur == docs[c.id]
              d == [c EXCEPT !.current_blob_name = cur.image_blob_name,
                             !.current_image_url = cur.image_url,
                             !.blob_name = cur.image_blob_name,
                             !.image_url = cur.image_url]
          IN IF d.has_image
             THEN IF ~bucket THEN Return(p, d, "RuntimeError")
                  ELSE IF IsSet(d.current_blob_name) THEN Goto(p, d, "upd_del_old")
                  ELSE Goto(p, d, "upd_upload")
             ELSE IF d.remove_image THEN Goto(p, d, "upd_remove")
             ELSE Goto(p, d, "upd_write")

\* update_recipe, new image: self._delete_blob_if_exists(current_blob_name).
FsUpdateDeleteOld(p) ==
  /\ pc[p] = "upd_del_old"
  /\ LET name == local[p].current_blob_name
     IN /\ blobs' = DeleteBlobIfExists(name)
        /\ Goto(p, IF CallsBlobDelete(name) THEN Logged(local[p], "delete", name[1])
                   ELSE local[p], "upd_upload")
  /\ UNCHANGED <<Config, calls, docs, nextId, nextBlob, recipes>>

\* update_recipe, new image: blob.upload_from_file and _get_image_url.
FsUpdateUpload(p) ==
  /\ pc[p] = "upd_upload"
  /\ LET b == BuildBlobName
         c == [local[p] EXCEPT !.blob_name = Some(b), !.image_url = Some(Url(b))]
     IN /\ blobs' = blobs \cup {b}
        /\ nextBlob' = nextBlob + 1
        /\ Goto(p, Logged(c, "upload", b), "upd_write")
  /\ UNCHANGED <<Config, calls, docs, nextId, recipes>>

\* The remove_image branch without the blob deletion.
FsUpdateRemove_KeepsBlob(p) ==
  /\ pc[p] = "upd_remove"
  /\ Goto(p, [local[p] EXCEPT !.blob_name = None, !.image_url = None], "upd_write")
  /\ UNCHANGED <<Config, calls, docs, blobs, nextId, nextBlob, recipes>>

\* The remove_image branch that clears the blob name and leaves the URL.
FsUpdateRemove_KeepsUrl(p) ==
  /\ pc[p] = "upd_remove"
  /\ LET name == local[p].current_blob_name
         c == [local[p] EXCEPT !.blob_name = None]
     IN /\ blobs' = DeleteBlobIfExists(name)
        /\ Goto(p, IF CallsBlobDelete(name) THEN Logged(c, "delete", name[1]) ELSE c,
                "upd_write")
  /\ UNCHANGED <<Config, calls, docs, nextId, nextBlob, recipes>>

\* update_recipe, remove_image: delete the blob and clear both fields.
FsUpdateRemove(p) ==
  /\ pc[p] = "upd_remove"
  /\ LET name == local[p].current_blob_name
         c == [local[p] EXCEPT !.blob_name = None, !.image_url = None]
     IN /\ blobs' = DeleteBlobIfExists(name)
        /\ Goto(p, IF CallsBlobDelete(name) THEN Logged(c, "delete", name[1]) ELSE c,
                "upd_write")
  /\ UNCHANGED <<Config, calls, docs, nextId, nextBlob, recipes>>

UpdateDoc(old, c) ==
  [old EXCEPT !.title = c.args.title, !.description = c.args.description,
              !.ingredients = ParseIngredients(c.args.ingredients),
              !.instructions = c.args.instructions,
              !.image_blob_name = c.blob_name, !.image_url = c.image_url]

\* update_recipe: doc_ref.update(update_doc), which fails on a missing
\* document, then the read back.
FsUpdateWrite(p) ==
  /\ pc[p] = "upd_write"
  /\ IF local[p].id \in DOMAIN docs
     THEN /\ docs' = [docs EXCEPT ![local[p].id] = UpdateDoc(@, local[p])]
          /\ Return(p, local[p], "ok")
     ELSE /\ UNCHANGED docs
          /\ Return(p, local[p], "DocumentMissing")
  /\ UNCHANGED <<Config, calls, blobs, nextId, nextBlob, recipes>>

\* blob.delete() raises something other than NotFound: it propagates.
BlobDeleteFails(p) ==
  /\ pc[p] \in {"del_blob", "upd_del_old", "upd_remove"}
  /\ CallsBlobDelete(local[p].current_blob_name)
  /\ Return(p, local[p], "BlobDeleteError")
  /\ UNCHANGED <<Config, calls, Stores>>

\* The upload error is swallowed and the call goes on to write the document.
UploadFails_Swallowed(p) ==
  /\ pc[p] \in {"add_upload", "upd_upload"}
  /\ Goto(p, [local[p] EXCEPT !.blob_name = Some(BuildBlobName),
                              !.image_url = Some(Url(BuildBlobName))],
          IF pc[p] = "add_upload" THEN "add_set" ELSE "upd_write")
  /\ UNCHANGED <<Config, calls, Stores>>

\* blob.upload_from_file raises: it propagates.
UploadFails(p) ==
  /\ pc[p] \in {"add_upload", "upd_upload"}
  /\ Return(p, local[p], "UploadError")
  /\ UNCHANGED <<Config, calls, Stores>>

\* The call stops between two steps: the worker dies or a document store call
\* raises.
Interrupt(p) ==
  /\ pc[p] \notin {"idle", "done"}
  /\ Return(p, local[p], "Interrupted")
  /\ UNCHANGED <<Config, calls, Stores>>

\* A blob is removed by hand, outside the application.
ExternalBlobRemove ==
  /\ \E b \in blobs : blobs' = blobs \ {b}
  /\ UNCHANGED <<Config, calls, docs, nextId, nextBlob, recipes, pc, local, result>>

\* ------------------------------------------------- InMemoryRecipeStorage
\* Index of the first recipe with this id, 0 when there is none.
IndexOf(id) ==
  IF \E i \in 1..Len(recipes) : recipes[i].id = id
  THEN CHOOSE i \in 1..Len(recipes) :
         recipes[i].id = id /\ \A j \in 1..(i - 1) : recipes[j].id # id
  ELSE 0

MemAddCall(p, c) ==
  /\ recipes' = Append(recipes,
       [id |-> nextId, title |-> c.args.title, description |-> c.args.description,
        ingredients |-> ParseIngredients(c.args.ingredients),
        instructions |-> c.args.instructions, image_url |-> None])
  /\ nextId' = nextId + 1
  /\ Return(p, [c EXCEPT !.id = nextId], "ok")
  /\ UNCHANGED <<docs, blobs, nextBlob>>

MemUpdateCall(p, c) ==
  LET i == IndexOf(c.id)
  IN IF i = 0
     THEN Return(p, c, "KeyError") /\ UNCHANGED Stores
     ELSE /\ recipes' = [recipes EXCEPT ![i] =
                 [@ EXCEPT !.title = c.args.title, !.description = c.args.description,
                           !.ingredients = ParseIngredients(c.args.ingredients),
                           !.instructions = c.args.instructions]]
          /\ Return(p, c, "ok")
          /\ UNCHANGED <<docs, blobs, nextId, nextBlob>>

MemDeleteCall(p, c) ==
  LET i == IndexOf(c.id)
  IN IF i = 0
     THEN Return(p, c, "KeyError") /\ UNCHANGED Stores
     ELSE /\ recipes' = SubSeq(recipes, 1, i - 1) \o SubSeq(recipes, i + 1, Len(recipes))
          /\ Return(p, c, "ok")
          /\ UNCHANGED <<docs, blobs, nextId, nextBlob>>

\* --------------------------------------------------- calling a repository
\* The keyword parameters of add_recipe and update_recipe, per repository.
TextParams == {"title", "description", "ingredients_text", "instructions", "image"}

UpdateParams == IF backend = "firestore" THEN TextParams \cup {"remove_image"} ELSE TextParams

\* Python binds the keyword arguments before the body runs: a keyword the
\* function does not declare, or a missing keyword-only argument without a
\* default, raises TypeError.
Binds(kwargs, params, required) == kwargs \subseteq params /\ required \subseteq kwargs

Call(kind, via, id, form, args, kwargs, image, remove_image) ==
  [NoCall EXCEPT !.kind = kind, !.via = via, !.id = id, !.form = form, !.args = args,
                 !.kwargs = kwargs, !.has_image = ImageTruthy(image),
                 !.remove_image = remove_image]

\* storage_backend.add_recipe(...)
StorageAdd(p, c) ==
  IF ~Binds(c.kwargs, TextParams, TextParams)
  THEN Return(p, c, "TypeError") /\ UNCHANGED Stores
  ELSE IF backend = "firestore" THEN FsAddCall(p, c) ELSE MemAddCall(p, c)

\* storage_backend.update_recipe(recipe_id, ...)
StorageUpdate(p, c) ==
  IF ~Binds(c.kwargs, UpdateParams, TextParams)
  THEN Return(p, c, "TypeError") /\ UNCHANGED Stores
  ELSE IF backend = "firestore" THEN FsUpdateCall(p, c) ELSE MemUpdateCall(p, c)

\* storage_backend.delete_recipe(recipe_id)
StorageDelete(p, c) ==
  IF backend = "firestore" THEN FsDeleteCall(p, c) ELSE MemDeleteCall(p, c)

\* The model stops creating documents and blob names at its bounds.
CanAdd == nextId <= MaxRecipes
CanUpload(image) == (ImageTruthy(image) /\ bucket) => nextBlob <= MaxBlobs

\* A caller other than the handlers (the tests) calls the repository.
DirectAdd(p) ==
  /\ Callable(p) /\ CanAdd
  /\ \E f \in DirectTexts, image \in Images :
       /\ CanUpload(image)
       /\ StorageAdd(p, Call("add", "direct", 0, f, f, TextParams, image, FALSE))
  /\ Called(p)

DirectUpdate(p) ==
  /\ Callable(p)
  /\ \E id \in Ids, f \in DirectTexts, image \in Images, remove \in {"omitted", "true"} :
       /\ CanUpload(image)
       /\ StorageUpdate(p, Call("update", "direct", id, f, f,
            IF remove = "omitted" THEN TextParams ELSE TextParams \cup {"remove_image"},
            image, remove = "true"))
  /\ Called(p)

DirectDelete(p) ==
  /\ Callable(p)
  /\ \E id \in Ids : StorageDelete(p, Call("delete", "direct", id, NoText, NoText, {}, NoFile, FALSE))
  /\ Called(p)

\* ------------------------------------------------------------ the handlers
\* The handler returns before it calls the repository.
Reject(p, c, why) == Return(p, c, why) /\ UNCHANGED Stores

\* POST /recipes without the check of the title.
HandleCreate_NoTitleCheck(p) ==
  /\ Callable(p) /\ CanAdd
  /\ \E f \in TextForms, image \in Images :
       LET a == StripForm(f)
           c == Call("add", "handler", 0, f, a, TextParams, image, FALSE)
       IN /\ CanUpload(image)
          /\ IF ImageTruthy(image) /\ ~AllowedImage(image.filename)
             THEN Reject(p, c, "BadImage")
             ELSE StorageAdd(p, c)
  /\ Called(p)

\* POST /recipes
HandleCreate(p) ==
  /\ Callable(p) /\ CanAdd
  /\ \E f \in TextForms, image \in Images :
       LET a == StripForm(f)
           c == Call("add", "handler", 0, f, a, TextParams, image, FALSE)
       IN /\ CanUpload(image)
          /\ IF a.title = <<>> THEN Reject(p, c, "NoTitle")
             ELSE IF ImageTruthy(image) /\ ~AllowedImage(image.filename)
             THEN Reject(p, c, "BadImage")
             ELSE StorageAdd(p, c)
  /\ Called(p)

\* POST /recipes/<recipe_id>
HandleUpdate(p) ==
  /\ Callable(p)
  /\ \E id \in Ids, f \in TextForms, image \in Images, remove_field \in {"1", ""} :
       LET a == StripForm(f)
           remove_image == IF ImageTruthy(image) THEN FALSE ELSE remove_field = "1"
           c == Call("update", "handler", id, f, a, TextParams \cup {"remove_image"},
                     image, remove_image)
       IN /\ CanUpload(image)
          /\ IF a.title = <<>> THEN Reject(p, c, "NoTitle")
             ELSE IF ImageTruthy(image) /\ ~AllowedImage(image.filename)
             THEN Reject(p, c, "BadImage")
             ELSE StorageUpdate(p, c)
  /\ Called(p)

\* POST /recipes/<recipe_id>/delete
HandleDelete(p) ==
  /\ Callable(p)
  /\ \E id \in Ids :
       StorageDelete(p, Call("delete", "handler", id, NoText, NoText, {}, NoFile, FALSE))
  /\ Called(p)

\* The message the handler flashes for the way the call ended.
Flash(p) ==
  CASE local[p].via # "handler" \/ pc[p] # "done" -> "none"
    [] result[p] \in {"NoTitle", "BadImage"} -> "error"
    [] result[p] = "ok" -> "success"
    [] OTHER -> "error"

\* ------------------------------------------------------ the specification
Step(p) ==
  \/ DirectAdd(p) \/ DirectUpdate(p) \/ DirectDelete(p)
  \/ HandleCreate(p) \/ HandleUpdate(p) \/ HandleDelete(p)
  \/ FsAddUpload(p) \/ FsAddSet(p)
  \/ FsDeleteBlob(p) \/ FsDeleteDoc(p)
  \/ FsUpdateDeleteOld(p) \/ FsUpdateUpload(p) \/ FsUpdateRemove(p) \/ FsUpdateWrite(p)
  \/ BlobDeleteFails(p) \/ UploadFails(p) \/ Interrupt(p)

\* One request at a time.
Next == Step("p1") \/ ExternalBlobRemove

Spec == Init /\ [][Next]_vars

\* Two workers serve requests at the same time.  The collection holds one
\* recipe, stored by an earlier add_recipe with or without an image, and the
\* workers call update_recipe; the steps of their calls interleave.
ConcInit ==
  /\ backend = "firestore"
  /\ bucket = TRUE
  /\ \E t \in DirectTexts, image_blob_name \in {None, Some(1)} :
       /\ docs = [i \in {1} |->
                    [title |-> t.title, description |-> t.description,
                     ingredients |-> ParseIngredients(t.ingredients),
                     instructions |-> t.instructions,
                     image_url |-> IF IsSet(image_blob_name) THEN Some(Url(1)) ELSE None,
                     image_blob_name |-> image_blob_name]]
       /\ blobs = (IF IsSet(image_blob_name) THEN {1} ELSE {})
       /\ nextBlob = (IF IsSet(image_blob_name) THEN 2 ELSE 1)
  /\ nextId = 2
  /\ recipes = <<>>
  /\ pc = [p \in Procs |-> "idle"]
  /\ local = [p \in Procs |-> NoCall]
  /\ result = [p \in Procs |-> "none"]
  /\ calls = [p \in Procs |-> 0]

NextConc ==
  \E p \in Procs :
    \/ DirectUpdate(p)
    \/ FsUpdateDeleteOld(p) \/ FsUpdateUpload(p) \/ FsUpdateRemove(p) \/ FsUpdateWrite(p)
    \/ BlobDeleteFails(p) \/ UploadFails(p) \/ Interrupt(p)

SpecConc == ConcInit /\ [][NextConc]_vars

\* ------------------------------------------------------------ the claims
Done(p, kind) == pc[p] = "done" /\ local[p].kind = kind

\* The process makes a call in this step.
CallStep(p) == calls'[p] # calls[p]

\* The call made blob-store operation op on blob b.
Did(c, op, b) == \E i \in 1..Len(c.ops) : c.ops[i] = <<op, b>>

\* The call stopped between two of its steps.
Stopped(p) == result[p] \in {"Interrupted", "BlobDeleteError", "UploadError"}

\* C1, as claimed: a delete_recipe that is interrupted between its steps
\* never leaves a document that is still there while the blob it names has
\* been deleted by that call.
C1_NoDanglingDocument ==
  \A p \in Procs :
    (Done(p, "delete") /\ Stopped(p) /\ IsSet(local[p].current_blob_name))
      => ~( /\ local[p].id \in DOMAIN docs
            /\ docs[local[p].id].image_blob_name = local[p].current_blob_name
            /\ Did(local[p], "delete", local[p].current_blob_name[1])
            /\ local[p].current_blob_name[1] \notin blobs )

\* C1, amended: a delete_recipe on a recipe with an image that is
\* interrupted between its steps leaves the document in place, still naming
\* its blob (the blob may be gone already: a dangling reference); it never
\* leaves the blob behind a removed document.
C1_InterruptedDeleteKeepsDocument ==
  \A p \in Procs :
    (Done(p, "delete") /\ Stopped(p) /\ IsSet(local[p].current_blob_name))
      => /\ local[p].id \in DOMAIN docs
         /\ docs[local[p].id].image_blob_name = local[p].current_blob_name

C1_Witness ==
  /\ Done("p1", "delete") /\ result["p1"] = "Interrupted"
  /\ IsSet(local["p1"].current_blob_name)
  /\ Did(local["p1"], "delete", local["p1"].current_blob_name[1])
  /\ local["p1"].current_blob_name[1] \notin blobs
  /\ local["p1"].id \in DOMAIN docs

\* C2: in an update_recipe with a new image on a recipe that has an image,
\* every deletion of the previous blob comes after the upload of the new one.
C2_UploadBeforeDeleteOld ==
  \A p \in Procs :
    (local[p].kind = "update" /\ local[p].has_image /\ IsSet(local[p].current_blob_name))
      => \A i \in 1..Len(local[p].ops) :
           local[p].ops[i][1] = "delete"
             => \E j \in 1..(i - 1) : local[p].ops[j][1] = "upload"

\* C3: an update_recipe with a new image on an existing recipe that has an
\* image succeeds and leaves the document naming the new blob, whatever the
\* deletion of the previous blob did (the upload and the document write
\* themselves not failing).
C3_UpdateSurvivesDeleteFailure ==
  \A p \in Procs :
    ( /\ Done(p, "update") /\ local[p].has_image /\ bucket
      /\ IsSet(local[p].current_blob_name)
      /\ result[p] \notin {"NoTitle", "BadImage", "UploadError", "Interrupted",
                           "DocumentMissing"} )
      => /\ result[p] = "ok"
         /\ local[p].id \in DOMAIN docs
         /\ IsSet(docs[local[p].id].image_blob_name)
         /\ Did(local[p], "upload", docs[local[p].id].image_blob_name[1])

\* C4: add_recipe with an image writes the document only after the upload of
\* the blob it names; an add_recipe that fails (upload error, no bucket)
\* changes no document; and no document names a blob that was never stored.
C4_Step(p) ==
  (local'[p].kind = "add" /\ (CallStep(p) \/ local[p].kind = "add"))
    => /\ (result'[p] # "ok" => docs' = docs)
       /\ (local'[p].has_image /\ ~bucket /\ backend = "firestore"
            => result'[p] \in {"RuntimeError", "NoTitle", "BadImage"})
       /\ (docs' # docs /\ local'[p].has_image
             => /\ pc[p] = "add_set"
                /\ IsSet(docs'[local'[p].id].image_blob_name)
                /\ Did(local[p], "upload", docs'[local'[p].id].image_blob_name[1]))

C4_NoDocumentWithoutBlob ==
  /\ [](\A id \in DOMAIN docs :
          IsSet(docs[id].image_blob_name) => docs[id].image_blob_name[1] < nextBlob)
  /\ [][\A p \in Procs : C4_Step(p)]_vars

C4_Witness ==
  /\ Done("p1", "add") /\ local["p1"].has_image /\ result["p1"] = "UploadError"
  /\ \E id \in DOMAIN docs : IsSet(docs[id].image_blob_name)

\* C5: update_recipe of the Firestore repository on an id that is not in the
\* collection raises KeyError and changes neither the collection nor the
\* bucket, whatever image and remove_image are.
C5_UpdateMissingIsKeyError ==
  [][\A p \in Procs :
       ( /\ CallStep(p) /\ backend = "firestore"
         /\ local'[p].kind = "update" /\ local'[p].id \notin DOMAIN docs
         /\ result'[p] \notin {"NoTitle", "BadImage"} )
         => /\ pc'[p] = "done" /\ result'[p] = "KeyError"
            /\ docs' = docs /\ blobs' = blobs /\ nextBlob' = nextBlob]_vars

C5_Witness ==
  /\ backend = "firestore" /\ bucket
  /\ Done("p1", "update") /\ result["p1"] = "KeyError"
  /\ local["p1"].has_image /\ local["p1"].remove_image
  /\ blobs # {} /\ DOMAIN docs # {}

\* The recipe is in the repository.
Exists(id) ==
  IF backend = "firestore" THEN id \in DOMAIN docs ELSE IndexOf(id) # 0

\* C6: a delete_recipe that returns has removed the recipe; a delete_recipe
\* on an absent recipe raises KeyError and changes nothing; so the second of
\* two delete_recipe calls in a row on one id raises KeyError.
C6_Step(p) ==
  /\ (CallStep(p) /\ local'[p].kind = "delete" /\ ~Exists(local'[p].id))
       => /\ pc'[p] = "done" /\ result'[p] = "KeyError"
          /\ docs' = docs /\ recipes' = recipes /\ blobs' = blobs
  /\ ( /\ CallStep(p) /\ Done(p, "delete") /\ result[p] = "ok"
       /\ local'[p].kind = "delete" /\ local'[p].id = local[p].id )
       => pc'[p] = "done" /\ result'[p] = "KeyError"

C6_DeleteTwice ==
  /\ [](\A p \in Procs :
          (Done(p, "delete") /\ result[p] = "ok") => ~Exists(local[p].id))
  /\ [][\A p \in Procs : C6_Step(p)]_vars

C6_Witness ==
  /\ Done("p1", "delete") /\ result["p1"] = "KeyError"
  /\ local["p1"].id < nextId

\* C7: an update_recipe with remove_image and no new image that returns
\* leaves the document without image URL and without blob name, and the blob
\* the document named before is not in the bucket.
C7_RemoveImageClearsBoth ==
  \A p \in Procs :
    ( /\ Done(p, "update") /\ result[p] = "ok" /\ backend = "firestore"
      /\ local[p].remove_image /\ ~local[p].has_image )
      => /\ docs[local[p].id].image_url = None
         /\ docs[local[p].id].image_blob_name = None
         /\ (IsSet(local[p].current_blob_name)
               => local[p].current_blob_name[1] \notin blobs)

C7_Witness ==
  /\ Done("p1", "update") /\ result["p1"] = "ok" /\ backend = "firestore"
  /\ local["p1"].remove_image /\ ~local["p1"].has_image
  /\ IsSet(local["p1"].current_blob_name)
  /\ Did(local["p1"], "delete", local["p1"].current_blob_name[1])

\* C8: an update_recipe without a new image and without remove_image writes
\* the image URL and the blob name the recipe had, and neither uploads nor
\* deletes a blob.
C8_Step(p) ==
  /\ ( /\ pc[p] = "upd_write" /\ pc'[p] = "done" /\ result'[p] = "ok"
       /\ ~local[p].has_image /\ ~local[p].remove_image )
       => /\ docs'[local[p].id].image_url = docs[local[p].id].image_url
          /\ docs'[local[p].id].image_blob_name = docs[local[p].id].image_blob_name
          /\ blobs' = blobs
  /\ ( /\ CallStep(p) /\ backend = "memory" /\ local'[p].kind = "update"
       /\ result'[p] = "ok" )
       => recipes'[IndexOf(local'[p].id)].image_url
            = recipes[IndexOf(local'[p].id)].image_url

C8_ImageUntouched ==
  /\ [](\A p \in Procs :
          (local[p].kind = "update" /\ ~local[p].has_image /\ ~local[p].remove_image)
            => /\ local[p].ops = <<>>
               /\ (result[p] = "ok" /\ backend = "firestore"
                     => /\ docs[local[p].id].image_url = local[p].current_image_url
                        /\ docs[local[p].id].image_blob_name
                             = local[p].current_blob_name))
  /\ [][\A p \in Procs : C8_Step(p)]_vars

C8_Witness ==
  /\ Done("p1", "update") /\ result["p1"] = "ok" /\ backend = "firestore"
  /\ ~local["p1"].has_image /\ ~local["p1"].remove_image
  /\ IsSet(docs[local["p1"].id].image_blob_name)
  /\ docs[local["p1"].id].title = local["p1"].args.title

\* C9: every stored document has its image URL and its blob name both set
\* or both unset.
C9_ImageReferenceWhole ==
  \A id \in DOMAIN docs : IsSet(docs[id].image_url) <=> IsSet(docs[id].image_blob_name)

C9_Witness ==
  /\ \E id \in DOMAIN docs : IsSet(docs[id].image_url)
  /\ \E id \in DOMAIN docs : ~IsSet(docs[id].image_url)
  /\ Done("p1", "update") /\ result["p1"] = "ok" /\ local["p1"].remove_image

\* The four text fields of the stored recipe.
StoredText(id) ==
  LET r == IF backend = "firestore" THEN docs[id] ELSE recipes[IndexOf(id)]
  IN [title |-> r.title, description |-> r.description,
      ingredients |-> r.ingredients, instructions |-> r.instructions]

\* What the form asks to be stored.
Submitted(f) ==
  [title |-> Strip(f.title), description |-> Strip(f.description),
   ingredients |-> ParseIngredients(Strip(f.ingredients)),
   instructions |-> Strip(f.instructions)]

\* C10: an update form with a title, submitted for a recipe that exists,
\* replaces the stored title, description, ingredients and instructions by
\* the submitted ones, whichever repository the handler was given (the image
\* being acceptable and the stores not failing).
C10_FormUpdateReplacesFields ==
  \A p \in Procs :
    ( /\ Done(p, "update") /\ local[p].via = "handler"
      /\ Strip(local[p].form.title) # <<>>
      /\ Exists(local[p].id)
      /\ result[p] \notin {"BadImage", "RuntimeError", "UploadError",
                           "BlobDeleteError", "Interrupted"} )
      => /\ result[p] = "ok"
         /\ StoredText(local[p].id) = Submitted(local[p].form)

\* C11: a create or update form whose title is empty after trimming is
\* turned down before the repository is called: the handler flashes the
\* error and the recipes, their fields and the blobs stay as they were.
C11_Step(p) ==
  ( /\ CallStep(p) /\ local'[p].via = "handler"
    /\ local'[p].kind \in {"add", "update"}
    /\ Strip(local'[p].form.title) = <<>> )
    => /\ pc'[p] = "done" /\ result'[p] = "NoTitle"
       /\ docs' = docs /\ recipes' = recipes /\ blobs' = blobs
       /\ nextId' = nextId /\ nextBlob' = nextBlob

C11_EmptyTitleRejected ==
  /\ [](\A p \in Procs : result[p] = "NoTitle" => Flash(p) = "error")
  /\ [][\A p \in Procs : C11_Step(p)]_vars

C11_Witness ==
  /\ Done("p1", "update") /\ local["p1"].via = "handler"
  /\ result["p1"] = "NoTitle" /\ Flash("p1") = "error"
  /\ Exists(local["p1"].id)

\* C12: a delete_recipe whose blob.delete() found the blob gone already
\* goes on to delete the document and returns (unless it is interrupted
\* before the document is deleted); the bucket is as it was.
C12_DeleteToleratesMissingBlob ==
  \A p \in Procs :
    (local[p].kind = "delete" /\ local[p].not_found)
      => /\ pc[p] \in {"del_doc", "done"}
         /\ (pc[p] = "done" /\ result[p] # "Interrupted"
               => result[p] = "ok" /\ local[p].id \notin DOMAIN docs)

C12_Witness ==
  /\ Done("p1", "delete") /\ local["p1"].not_found /\ result["p1"] = "ok"
  /\ local["p1"].id \notin DOMAIN docs

\* C13: once two update_recipe calls on one existing recipe, one by each
\* worker and interleaved in any way, have both returned without error, the
\* blob name in the document is unset or names a blob that is in the bucket.
C13_BlobPresentAfterBothUpdates ==
  \A id \in DOMAIN docs :
    (\A p \in Procs :
       Done(p, "update") /\ result[p] = "ok" /\ calls[p] = 1 /\ local[p].id = id)
      => (IsSet(docs[id].image_blob_name) => docs[id].image_blob_name[1] \in blobs)

====
